---- MODULE Spec2Model ----
(***************************************************************************)
(* Model of the email transparency bot: split_text, post_chunks and        *)
(* post_to_bluesky of src/bluesky_post.py and process_inbox of src/bot.py. *)
(*                                                                         *)
(* A text is a sequence of one-character strings.  Positions named after   *)
(* the source (start, end, last_space) are Python's 0-based offsets; the   *)
(* operators below translate them to TLA+'s 1-based sequences.             *)
(***************************************************************************)
EXTENDS Integers, Sequences, FiniteSets, TLC

VARIABLES
    pc,             \* position of the running code
    stack,          \* functions being executed, innermost last
    full_text,      \* split_text: argument
    max_chunk,      \* split_text: argument
    start,          \* split_text: cursor
    stalls,         \* split_text: consecutive iterations that left start unchanged
    chunks,         \* split_text: list being built; post_chunks: the list returned
    post_text,      \* post_chunks: argument
    ci,             \* post_chunks: 1-based index of the next chunk to send
    root_ref,       \* post_chunks: strong ref of the first post (0 = unset)
    parent_ref,     \* post_chunks: strong ref of the latest post (0 = unset)
    clock,          \* seconds slept by post_chunks in the current call
    calls,          \* send_post calls issued by the current post_chunks call
    feed,           \* posts the posting service holds
    result,         \* outcome of post_to_bluesky/post_chunks: none, returned, raised
    retval,         \* value returned by post_chunks
    mailbox,        \* Gmail: message id -> message
    inInbox,        \* Gmail: ids of the messages carrying the INBOX label
    run,            \* number of the current process_inbox run
    inbox_messages, \* process_inbox: ids listed by fetch_messages_by_label
    idx,            \* process_inbox: 1-based position in inbox_messages
    gets,           \* ids passed to messages.get in the current run
    num_posts       \* process_inbox: num_posts of the current message

vars == <<pc, stack, full_text, max_chunk, start, stalls, chunks, post_text, ci,
          root_ref, parent_ref, clock, calls, feed, result, retval, mailbox,
          inInbox, run, inbox_messages, idx, gets, num_posts>>

splitVars == <<full_text, max_chunk, start, stalls, chunks>>
postVars == <<post_text, ci, root_ref, parent_ref, clock, calls, result, retval>>
gmailVars == <<mailbox, inInbox>>
inboxVars == <<run, inbox_messages, idx, gets, num_posts>>

----------------------------------------------------------------------------
(* Bounds of the model *)

\* longest text of the exhaustive small-text inputs of split_text
MaxLen == 5
\* most parts (runs of one character) a long text is built from
MaxParts == 3
\* most consecutive iterations of split_text's loop that make no progress
MaxStall == 2
\* most messages in the mailbox
MaxMsgs == 2
\* most runs of process_inbox
MaxRunCount == 2

(* Program constants *)

\* split_text(full_text, max_chunk=300)
DefaultMaxChunk == 300
\* if last_space > max_chunk - 50
Slack == 50
\* time.sleep(5)
Delay == 5

----------------------------------------------------------------------------
(* Text helpers: Python's str operations on sequences of characters *)

Max(S) == CHOOSE x \in S : \A y \in S : y <= x
Min(S) == CHOOSE x \in S : \A y \in S : x <= y

\* characters str.strip() removes (str.isspace)
Whitespace == {" ", "\t", "\n"}

\* s[a:b] for 0 <= a
Slice(s, a, b) ==
    LET hi == IF b < Len(s) THEN b ELSE Len(s)
    IN  IF a >= hi THEN <<>> ELSE SubSeq(s, a + 1, hi)

\* s.rfind(' '): 0-based offset of the last space, -1 when there is none
RFindSpace(s) ==
    LET at == {i \in 1..Len(s) : s[i] = " "}
    IN  IF at = {} THEN -1 ELSE Max(at) - 1

\* s.strip()
Strip(s) ==
    LET keep == {i \in 1..Len(s) : s[i] \notin Whitespace}
    IN  IF keep = {} THEN <<>> ELSE SubSeq(s, Min(keep), Max(keep))

\* ch repeated n times
Rep(ch, n) == [i \in 1..n |-> ch]

RECURSIVE Concat(_)
\* the texts of a list joined together
Concat(ss) == IF ss = <<>> THEN <<>> ELSE Head(ss) \o Concat(Tail(ss))

\* the characters of s that are not whitespace, in order
NonWs(s) == SelectSeq(s, LAMBDA c : c \notin Whitespace)

----------------------------------------------------------------------------
(* Values of the variables that are not in use *)

IdleSplit ==
    /\ full_text = <<>> /\ max_chunk = DefaultMaxChunk /\ start = 0
    /\ stalls = 0 /\ chunks = <<>>
IdlePost ==
    /\ post_text = <<>> /\ ci = 1 /\ root_ref = 0 /\ parent_ref = 0
    /\ clock = 0 /\ calls = <<>> /\ result = "none" /\ retval = 0
IdleInbox ==
    /\ mailbox = <<>> /\ inInbox = {} /\ run = 0 /\ inbox_messages = <<>>
    /\ idx = 1 /\ gets = <<>> /\ num_posts = 0

----------------------------------------------------------------------------
(* split_text, src/bluesky_post.py lines 119-146 *)

\* faulty variant of SplitEnd: the window is one character too long
SplitEndLong(text, st, mc) ==
    LET end == st + mc + 1
        chunk == Slice(text, st, end)
        last_space == RFindSpace(chunk) + 1
    IN  IF end < Len(text) /\ last_space > mc - Slack
        THEN st + last_space
        ELSE end

\* lines 136-143: the end of the chunk that begins at start
SplitEnd(text, st, mc) ==
    LET end == st + mc
        chunk == Slice(text, st, end)
        last_space == RFindSpace(chunk) + 1
    IN  IF end < Len(text) /\ last_space > mc - Slack
        THEN st + last_space
        ELSE end

\* lines 137/143: the chunk cut at SplitEnd
SplitChunk(text, st, mc) == Slice(text, st, SplitEnd(text, st, mc))

\* faulty variant of SplitStep: the cursor advances by the length of the trimmed chunk
SplitStepAfterTrim ==
    /\ pc = "while"
    /\ start < Len(full_text)
    /\ LET end == SplitEnd(full_text, start, max_chunk)
           chunk == Strip(SplitChunk(full_text, start, max_chunk))
       IN  /\ (end = start) => stalls < MaxStall
           /\ chunks' = Append(chunks, chunk)
           /\ start' = IF end = start THEN start ELSE start + Len(chunk)
           /\ stalls' = IF start' = start THEN stalls + 1 ELSE 0
    /\ UNCHANGED <<pc, stack, full_text, max_chunk>>
    /\ UNCHANGED <<postVars, feed, gmailVars, inboxVars>>

\* lines 134-145: one iteration of the while loop
SplitStep ==
    /\ pc = "while"
    /\ start < Len(full_text)
    /\ LET end == SplitEnd(full_text, start, max_chunk)
       IN  /\ (end = start) => stalls < MaxStall
           /\ chunks' = Append(chunks, Strip(SplitChunk(full_text, start, max_chunk)))
           /\ start' = end
           /\ stalls' = IF end = start THEN stalls + 1 ELSE 0
    /\ UNCHANGED <<pc, stack, full_text, max_chunk>>
    /\ UNCHANGED <<postVars, feed, gmailVars, inboxVars>>

\* lines 134, 146: the loop ends and split_text returns chunks to its caller
SplitReturn ==
    /\ pc = "while"
    /\ start >= Len(full_text)
    /\ stack' = SubSeq(stack, 1, Len(stack) - 1)
    /\ pc' = IF Len(stack) = 1 THEN "done" ELSE "chunks_check"
    /\ UNCHANGED <<splitVars, postVars, feed, gmailVars, inboxVars>>

----------------------------------------------------------------------------
(* post_to_bluesky's formatting, src/bluesky_post.py lines 71-77 *)

\* [ \t]
SpaceTab == {" ", "\t"}
\* "z" stands for the invisible characters \u200b-\u200d, \ufeff, \u00ad
Invisible == {"z"}
\* [\s\u200b-\u200d\ufeff\u00ad...]
LineClass == Whitespace \cup Invisible

RECURSIVE KeepRange(_, _, _, _)
\* the characters of s at the positions lo..hi that are in K, in order
KeepRange(s, K, lo, hi) ==
    IF lo > hi THEN <<>>
    ELSE IF lo = hi THEN (IF lo \in K THEN <<s[lo]>> ELSE <<>>)
    ELSE LET mid == (lo + hi) \div 2
         IN  KeepRange(s, K, lo, mid) \o KeepRange(s, K, mid + 1, hi)

\* s without the characters at the positions in D
Delete(s, D) == KeepRange(s, (1..Len(s)) \ D, 1, Len(s))

\* line 71: the header lines followed by the body
Compose(sender, subject, date, body) ==
    <<"E", " ", "F", "r", "o", "m", ":", " ">> \o sender \o
    <<"\n", "S", "u", "b", "j", "e", "c", "t", ":", " ">> \o subject \o
    <<"\n", "S", "e", "n", "t", ":", " ">> \o date \o <<"\n">> \o body

\* line 72: re.sub(r'^[ \t]+', '', text, flags=re.MULTILINE)
StripLeading(s) ==
    LET prev(i) == Max({k \in 1..i : s[k] \notin SpaceTab} \cup {0})
    IN  Delete(s, {i \in 1..Len(s) :
                     /\ s[i] \in SpaceTab
                     /\ prev(i) = 0 \/ s[prev(i)] = "\n"})

\* line 74: re.sub(r'^[\s...]+$', '', text, flags=re.MULTILINE).  A match
\* starts at the first line start inside a maximal run a..e of LineClass
\* characters and ends before the run's last newline, or at the end of the text
RemoveBlankLines(s) ==
    LET n == Len(s)
        a(i) == 1 + Max({k \in 1..i : s[k] \notin LineClass} \cup {0})
        e(i) == Min({k \in i..n : s[k] \notin LineClass} \cup {n + 1}) - 1
        nls(i) == {k \in a(i)..e(i) : s[k] = "\n"}
        first(i) == IF a(i) = 1 THEN 1
                    ELSE IF nls(i) = {} THEN n + 1 ELSE Min(nls(i)) + 1
        last(i) == IF e(i) = n THEN n
                   ELSE IF nls(i) = {} THEN 0 ELSE Max(nls(i)) - 1
    IN  Delete(s, {i \in 1..n :
                     s[i] \in LineClass /\ first(i) <= i /\ i <= last(i)})

\* line 76: re.sub(r'\n{3,}', '\n\n', text)
CollapseNewlines(s) ==
    Delete(s, {i \in 3..Len(s) : s[i] = "\n" /\ s[i - 1] = "\n" /\ s[i - 2] = "\n"})

\* lines 71-77: post_text
Format(sender, subject, date, body) ==
    Strip(CollapseNewlines(RemoveBlankLines(StripLeading(
        Compose(sender, subject, date, body)))))

----------------------------------------------------------------------------
(* post_chunks, src/bluesky_post.py lines 83-117 *)

\* send_post(text=...) without reply_to
NoReply == [root |-> 0, parent |-> 0]

\* id of the message process_inbox is handling, 0 when post_chunks runs alone
CurMsg == IF stack[1] = "process_inbox" THEN inbox_messages[idx] ELSE 0

\* where control goes when post_chunks returns or raises
AfterPostChunks == IF Len(stack) = 1 THEN "done" ELSE "post_result"

\* lines 115-117 (and 101-103): the exception leaves post_chunks
Raise ==
    /\ result' = "raised"
    /\ stack' = SubSeq(stack, 1, Len(stack) - 1)
    /\ pc' = AfterPostChunks

\* line 100: post_chunks starts and calls split_text(post_text)
CallSplitText ==
    /\ pc = "post_chunks"
    /\ full_text' = post_text
    /\ max_chunk' = DefaultMaxChunk
    /\ start' = 0 /\ stalls' = 0 /\ chunks' = <<>>
    /\ ci' = 1 /\ root_ref' = 0 /\ parent_ref' = 0 /\ clock' = 0 /\ calls' = <<>>
    /\ stack' = Append(stack, "split_text")
    /\ pc' = "while"
    /\ UNCHANGED <<post_text, result, retval, feed, gmailVars, inboxVars>>

\* lines 101-103: no chunks, ValueError("No content to post.")
ChunksCheck ==
    /\ pc = "chunks_check"
    /\ IF chunks = <<>>
       THEN Raise
       ELSE pc' = "send_root" /\ UNCHANGED <<result, stack>>
    /\ UNCHANGED <<splitVars, post_text, ci, root_ref, parent_ref, clock, calls,
                   retval, feed, gmailVars, inboxVars>>

\* the record of one client.send_post call: handle is the strong ref of the
\* post made, 0 when the call failed; at is the time slept before the call
Call(text, reply_to, handle) ==
    [text |-> text, reply_to |-> reply_to, handle |-> handle, at |-> clock]

\* the post the service stores
Post(text, reply_to) == [text |-> text, reply_to |-> reply_to, of |-> CurMsg]

\* lines 105-107: publish chunks[0] as the root post
SendRoot ==
    /\ pc = "send_root"
    /\ \E ok \in BOOLEAN :
        IF ok
        THEN /\ feed' = Append(feed, Post(chunks[1], NoReply))
             /\ calls' = Append(calls, Call(chunks[1], NoReply, Len(feed) + 1))
             /\ root_ref' = Len(feed) + 1
             /\ parent_ref' = Len(feed) + 1
             /\ ci' = 2
             /\ pc' = "for"
             /\ UNCHANGED <<result, stack>>
        ELSE /\ calls' = Append(calls, Call(chunks[1], NoReply, 0))
             /\ Raise
             /\ UNCHANGED <<feed, root_ref, parent_ref, ci>>
    /\ UNCHANGED <<splitVars, post_text, clock, retval, gmailVars, inboxVars>>

\* faulty variant of Sleep: the delay is skipped
SleepSkipped ==
    /\ pc = "for"
    /\ ci <= Len(chunks)
    /\ pc' = "send_reply"
    /\ UNCHANGED <<stack, splitVars, post_text, ci, root_ref, parent_ref, calls,
                   clock, result, retval, feed, gmailVars, inboxVars>>

\* lines 108-109: another chunk is left, wait before posting it
Sleep ==
    /\ pc = "for"
    /\ ci <= Len(chunks)
    /\ clock' = clock + Delay
    /\ pc' = "send_reply"
    /\ UNCHANGED <<stack, splitVars, post_text, ci, root_ref, parent_ref, calls,
                   result, retval, feed, gmailVars, inboxVars>>

\* faulty variant of ReplyRef: the root is the previous reply
ReplyRefRootIsParent == [root |-> parent_ref, parent |-> parent_ref]

\* line 110: ReplyRef(parent=parent_ref, root=root_ref)
ReplyRef == [root |-> root_ref, parent |-> parent_ref]

\* faulty variant of SendReply: a failed reply is skipped and the loop goes on
SendReplyGoesOn ==
    /\ pc = "send_reply"
    /\ \E ok \in BOOLEAN :
        IF ok
        THEN /\ feed' = Append(feed, Post(chunks[ci], ReplyRef))
             /\ calls' = Append(calls, Call(chunks[ci], ReplyRef, Len(feed) + 1))
             /\ parent_ref' = Len(feed) + 1
        ELSE /\ calls' = Append(calls, Call(chunks[ci], ReplyRef, 0))
             /\ UNCHANGED <<feed, parent_ref>>
    /\ ci' = ci + 1
    /\ pc' = "for"
    /\ UNCHANGED <<result, stack>>
    /\ UNCHANGED <<splitVars, post_text, root_ref, clock, retval, gmailVars, inboxVars>>

\* lines 110-112: publish the next chunk as a reply
SendReply ==
    /\ pc = "send_reply"
    /\ \E ok \in BOOLEAN :
        IF ok
        THEN /\ feed' = Append(feed, Post(chunks[ci], ReplyRef))
             /\ calls' = Append(calls, Call(chunks[ci], ReplyRef, Len(feed) + 1))
             /\ parent_ref' = Len(feed) + 1
             /\ ci' = ci + 1
             /\ pc' = "for"
             /\ UNCHANGED <<result, stack>>
        ELSE /\ calls' = Append(calls, Call(chunks[ci], ReplyRef, 0))
             /\ Raise
             /\ UNCHANGED <<feed, parent_ref, ci>>
    /\ UNCHANGED <<splitVars, post_text, root_ref, clock, retval, gmailVars, inboxVars>>

\* lines 113-114: every chunk is posted, return len(chunks)
PostChunksReturn ==
    /\ pc = "for"
    /\ ci > Len(chunks)
    /\ result' = "returned"
    /\ retval' = Len(chunks)
    /\ stack' = SubSeq(stack, 1, Len(stack) - 1)
    /\ pc' = AfterPostChunks
    /\ UNCHANGED <<splitVars, post_text, ci, root_ref, parent_ref, clock, calls,
                   feed, gmailVars, inboxVars>>

----------------------------------------------------------------------------
(* process_inbox, src/bot.py lines 259-312, and post_to_bluesky,            *)
(* src/bluesky_post.py lines 43-81                                          *)

\* load_alias_mappings_from_env: recipient -> credentials
Aliases == "alias" :> [handle |-> "h", password |-> "p"]

RECURSIVE JoinLines(_)
\* line 297: "\n".join(parts)
JoinLines(parts) ==
    IF parts = <<>> THEN <<>>
    ELSE IF Len(parts) = 1 THEN parts[1]
    ELSE parts[1] \o <<"\n">> \o JoinLines(Tail(parts))

\* a message: its To, From, Subject and Date headers and the text parts
\* extract_all_text_parts finds in its payload
Message(to, subject, parts) ==
    [to |-> to, sender |-> <<"s">>, subject |-> subject, date |-> <<"d">>,
     parts |-> parts]

\* a message to an address without alias
OtherMessage == Message("other", <<"j">>, << <<"a">> >>)
\* a message whose text fits one post
ShortMessage ==
    Message("alias", <<>>,
            << <<" ", "a", " ", "a", "\n", "z", "\n", "\n", "\n", "\t", "a">> >>)
\* a message whose text needs two posts
TwoPostMessage == Message("alias", <<"j">>, << Rep("a", 250), Rep("a", 49) >>)
\* a message whose text needs three posts
ThreePostMessage ==
    Message("alias", <<" ", "j">>,
            << Rep("a", 250) \o <<" ">> \o Rep("a", 250), Rep("a", 250) >>)

MessageKinds == {OtherMessage, ShortMessage, TwoPostMessage, ThreePostMessage}

\* lines 294-297 and 71-77: the post_text of each kind of message
FormattedText ==
    [m \in MessageKinds |->
        Format(m.sender, m.subject, m.date, JoinLines(m.parts))]

RECURSIVE Ascending(_)
\* the ids of S as a list
Ascending(S) == IF S = {} THEN <<>> ELSE <<Min(S)>> \o Ascending(S \ {Min(S)})

\* faulty variant of ListInbox: every message is listed, whatever its labels
ListAllMail == Ascending(DOMAIN mailbox)

\* lines 96-108: fetch_messages_by_label(service, 'INBOX')
ListInbox == Ascending(inInbox)

\* the message of the current loop iteration
Cur == inbox_messages[idx]

\* lines 268-272: get_gmail_service, return when it fails
GetService ==
    /\ pc = "start"
    /\ \E ok \in BOOLEAN : pc' = IF ok THEN "fetch" ELSE "done"
    /\ UNCHANGED <<stack, splitVars, postVars, feed, gmailVars, inboxVars>>

\* lines 274-279: load the aliases and list the inbox, return when it fails
FetchMessages ==
    /\ pc = "fetch"
    /\ \E ok \in BOOLEAN :
        IF ok
        THEN inbox_messages' = ListInbox /\ pc' = "get"
        ELSE UNCHANGED inbox_messages /\ pc' = "done"
    /\ UNCHANGED <<stack, splitVars, postVars, feed, gmailVars, run, idx, gets,
                   num_posts>>

\* faulty variant of MessageGet: a failed fetch ends the run
MessageGetReturns ==
    /\ pc = "get"
    /\ idx <= Len(inbox_messages)
    /\ gets' = Append(gets, Cur)
    /\ \E ok \in BOOLEAN : pc' = IF ok THEN "recipient" ELSE "done"
    /\ UNCHANGED <<stack, splitVars, postVars, feed, gmailVars, run,
                   inbox_messages, idx, num_posts>>

\* lines 281-286: fetch the next message, continue with the one after it
\* when that fails
MessageGet ==
    /\ pc = "get"
    /\ idx <= Len(inbox_messages)
    /\ gets' = Append(gets, Cur)
    /\ \E ok \in BOOLEAN :
        IF ok
        THEN pc' = "recipient" /\ UNCHANGED idx
        ELSE pc' = "get" /\ idx' = idx + 1
    /\ UNCHANGED <<stack, splitVars, postVars, feed, gmailVars, run,
                   inbox_messages, num_posts>>

\* line 281: the list is exhausted, process_inbox returns
LoopExit ==
    /\ pc = "get"
    /\ idx > Len(inbox_messages)
    /\ pc' = "done"
    /\ UNCHANGED <<stack, splitVars, postVars, feed, gmailVars, inboxVars>>

\* lines 288-297 and 309-312: read the headers and the body; an exception
\* or a recipient without alias ends the handling of this message
Recipient ==
    /\ pc = "recipient"
    /\ \E ok \in BOOLEAN :
        IF ok /\ mailbox[Cur].to \in DOMAIN Aliases
        THEN pc' = "login" /\ UNCHANGED idx
        ELSE pc' = "get" /\ idx' = idx + 1
    /\ UNCHANGED <<stack, splitVars, postVars, feed, gmailVars, run,
                   inbox_messages, gets, num_posts>>

\* bluesky_post.py lines 64-81: log in, format the text and call post_chunks;
\* a failed login raises to process_inbox
Login ==
    /\ pc = "login"
    /\ \E ok \in BOOLEAN :
        IF ok
        THEN /\ post_text' = FormattedText[mailbox[Cur]]
             /\ result' = "none"
             /\ stack' = Append(stack, "post_chunks")
             /\ pc' = "post_chunks"
        ELSE /\ post_text' = <<>>
             /\ result' = "raised"
             /\ pc' = "post_result"
             /\ UNCHANGED stack
    /\ ci' = 1 /\ root_ref' = 0 /\ parent_ref' = 0 /\ clock' = 0 /\ calls' = <<>>
    /\ retval' = 0
    /\ UNCHANGED <<splitVars, feed, gmailVars, inboxVars>>

\* faulty variant of PostResult: after an exception num_posts counts the posts made
PostResultCountsPosts ==
    /\ pc = "post_result"
    /\ num_posts' = IF result = "returned" THEN retval
                    ELSE Cardinality({i \in 1..Len(calls) : calls[i].handle # 0})
    /\ pc' = "archive"
    /\ UNCHANGED <<stack, splitVars, postVars, feed, gmailVars, run,
                   inbox_messages, idx, gets>>

\* bot.py lines 298-304: num_posts is the value returned, 0 after an exception
PostResult ==
    /\ pc = "post_result"
    /\ num_posts' = IF result = "returned" THEN retval ELSE 0
    /\ pc' = "archive"
    /\ UNCHANGED <<stack, splitVars, postVars, feed, gmailVars, run,
                   inbox_messages, idx, gets>>

\* lines 305-308: remove the INBOX label, log when that fails; next message.
\* The locals of the finished iteration are dead (each is assigned again
\* before it is read) and are dropped here
Archive ==
    /\ pc = "archive"
    /\ \E ok \in BOOLEAN :
        inInbox' = IF ok THEN inInbox \ {Cur} ELSE inInbox
    /\ idx' = idx + 1
    /\ pc' = "get"
    /\ full_text' = <<>> /\ max_chunk' = DefaultMaxChunk /\ start' = 0
    /\ stalls' = 0 /\ chunks' = <<>>
    /\ post_text' = <<>> /\ ci' = 1 /\ root_ref' = 0 /\ parent_ref' = 0
    /\ clock' = 0 /\ calls' = <<>> /\ result' = "none" /\ retval' = 0
    /\ num_posts' = 0
    /\ UNCHANGED <<stack, feed, mailbox, run, inbox_messages, gets>>

\* the scheduler starts process_inbox again
NextRun ==
    /\ pc = "done"
    /\ run < MaxRunCount
    /\ run' = run + 1
    /\ pc' = "start"
    /\ inbox_messages' = <<>> /\ idx' = 1 /\ gets' = <<>> /\ num_posts' = 0
    /\ UNCHANGED <<stack, splitVars, postVars, feed, gmailVars>>

----------------------------------------------------------------------------
(* Inputs *)

SmallAlphabet == {"a", " ", "\n"}
\* every text of at most MaxLen characters
SmallTexts == UNION {[1..n -> SmallAlphabet] : n \in 0..MaxLen}
SmallChunkSizes == 1..3

LongRunLens == {1, 49, 250}
LongParts == {Rep(c, 1) : c \in SmallAlphabet} \cup {Rep("a", n) : n \in LongRunLens}
LongTexts == {Concat(ps) : ps \in UNION {[1..n -> LongParts] : n \in 0..MaxParts}}
LargeChunkSizes == {20, Slack, Slack + 2, DefaultMaxChunk}

SplitInputs == (SmallTexts \X SmallChunkSizes) \cup (LongTexts \X LargeChunkSizes)

----------------------------------------------------------------------------
(* SpecSplit: split_text called on its own *)

InitSplit ==
    /\ pc = "while"
    /\ stack = <<"split_text">>
    /\ \E in \in SplitInputs : full_text = in[1] /\ max_chunk = in[2]
    /\ start = 0 /\ stalls = 0 /\ chunks = <<>>
    /\ IdlePost /\ feed = <<>> /\ IdleInbox

NextSplit == SplitStep \/ SplitReturn

SpecSplit == InitSplit /\ [][NextSplit]_vars

----------------------------------------------------------------------------
(* SpecPublish: post_chunks called on its own with an authenticated client *)

\* a post made before the call
EarlierPost == [text |-> <<"a">>, reply_to |-> NoReply, of |-> 0]

InitPublish ==
    /\ pc = "post_chunks"
    /\ stack = <<"post_chunks">>
    /\ post_text \in LongTexts
    /\ feed \in {<<>>, <<EarlierPost>>}
    /\ ci = 1 /\ root_ref = 0 /\ parent_ref = 0 /\ clock = 0 /\ calls = <<>>
    /\ result = "none" /\ retval = 0
    /\ IdleSplit /\ IdleInbox

NextPublish ==
    \/ CallSplitText
    \/ SplitStep
    \/ SplitReturn
    \/ ChunksCheck
    \/ SendRoot
    \/ Sleep
    \/ SendReply
    \/ PostChunksReturn

SpecPublish == InitPublish /\ [][NextPublish]_vars

----------------------------------------------------------------------------
(* SpecInbox: one run of process_inbox over a mailbox *)

Mailboxes == UNION {[1..n -> MessageKinds] : n \in 1..MaxMsgs}

InitInbox ==
    /\ pc = "start"
    /\ stack = <<"process_inbox">>
    /\ mailbox \in Mailboxes
    /\ inInbox = DOMAIN mailbox
    /\ run = 1
    /\ inbox_messages = <<>> /\ idx = 1 /\ gets = <<>> /\ num_posts = 0
    /\ feed = <<>>
    /\ IdleSplit /\ IdlePost

NextInbox ==
    \/ GetService
    \/ FetchMessages
    \/ MessageGet
    \/ LoopExit
    \/ Recipient
    \/ Login
    \/ CallSplitText
    \/ SplitStep
    \/ SplitReturn
    \/ ChunksCheck
    \/ SendRoot
    \/ Sleep
    \/ SendReply
    \/ PostChunksReturn
    \/ PostResult
    \/ Archive

SpecInbox == InitInbox /\ [][NextInbox]_vars

----------------------------------------------------------------------------
(* SpecRuns: the scheduler runs process_inbox again and again over a       *)
(* mailbox of one message of any kind, or of two of the shorter messages   *)

RunMailboxes ==
    [{1} -> MessageKinds] \cup
    [{1, 2} -> {OtherMessage, ShortMessage, TwoPostMessage}]

InitRuns ==
    /\ pc = "start"
    /\ stack = <<"process_inbox">>
    /\ mailbox \in RunMailboxes
    /\ inInbox = DOMAIN mailbox
    /\ run = 1
    /\ inbox_messages = <<>> /\ idx = 1 /\ gets = <<>> /\ num_posts = 0
    /\ feed = <<>>
    /\ IdleSplit /\ IdlePost

NextRuns == NextInbox \/ NextRun

SpecRuns == InitRuns /\ [][NextRuns]_vars

----------------------------------------------------------------------------
(* Claims about split_text *)

\* C6: every chunk split_text has appended is at most max_chunk characters long
ChunksWithinMax ==
    \A i \in 1..Len(chunks) : Len(chunks[i]) <= max_chunk

\* C6 witness: split_text returned several chunks, one of them a full window
ChunksWithinMaxWitness ==
    /\ pc = "done"
    /\ Len(chunks) >= 2
    /\ \E i \in 1..Len(chunks) : Len(chunks[i]) = max_chunk
    /\ \E i \in 1..Len(chunks) : Len(chunks[i]) < max_chunk /\ chunks[i] # <<>>

\* the window at the cursor holds no space at offset max_chunk - 50 or later
NoSpaceNearBoundary ==
    LET window == Slice(full_text, start, start + max_chunk)
    IN  \A i \in 1..Len(window) : window[i] = " " => i - 1 < max_chunk - Slack

\* C7: every iteration of split_text moves the cursor strictly forward, and
\* with no space at offset max_chunk - 50 or later in the window the cut is
\* the hard boundary at max_chunk
IterationAdvances ==
    [][(pc = "while" /\ chunks' # chunks) =>
          /\ start' > start
          /\ NoSpaceNearBoundary => start' = start + max_chunk]_vars

\* C8: the chunks appended so far hold, in order, exactly the non-whitespace
\* characters of the text before the cursor, and all of the text's once
\* split_text has returned
SplitKeepsContent ==
    /\ NonWs(Concat(chunks)) = NonWs(Slice(full_text, 0, start))
    /\ pc = "done" => NonWs(Concat(chunks)) = NonWs(full_text)

\* C8 witness: split_text returned after a cut at a space and a trim
SplitKeepsContentWitness ==
    /\ pc = "done"
    /\ Len(chunks) >= 3
    /\ Len(Concat(chunks)) < Len(full_text)
    /\ \E i \in 1..Len(chunks) : chunks[i] # <<>> /\ Len(chunks[i]) < max_chunk
    /\ NonWs(full_text) # <<>>

----------------------------------------------------------------------------
(* Claims about post_chunks *)

\* C2: the first send_post call carries no reply reference; every later call
\* carries root = the handle the first call returned and parent = the handle
\* the call before it returned; root_ref stays the first post's handle
ReplyRefsChain ==
    /\ \A i \in 1..Len(calls) :
        IF i = 1
        THEN calls[i].reply_to = NoReply
        ELSE /\ calls[i].reply_to.root = calls[1].handle
             /\ calls[i].reply_to.parent = calls[i - 1].handle
             /\ calls[i].reply_to.root # 0
             /\ calls[i].reply_to.parent # 0
    /\ (calls # <<>> /\ calls[1].handle # 0) => root_ref = calls[1].handle

\* C2 witness: a third call was issued, whose parent is not the root
ReplyRefsChainWitness ==
    /\ Len(calls) = 3
    /\ calls[3].handle # 0
    /\ calls[3].reply_to.root # calls[3].reply_to.parent
    /\ calls[2].reply_to.root = calls[2].reply_to.parent

\* the latest send_post call failed
LastCallFailed == calls # <<>> /\ calls[Len(calls)].handle = 0

\* C3: a failed send_post call is the last call of its thread: the failure
\* is surfaced to the caller, call i carried chunk i (no chunk is retried or
\* attempted after the failure), and every post made before it is still held
\* by the service
FailureAborts ==
    /\ \A i \in 1..Len(calls) :
        /\ i < Len(calls) => calls[i].handle # 0
        /\ i <= Len(chunks) /\ calls[i].text = chunks[i]
        /\ calls[i].handle # 0 =>
              /\ calls[i].handle <= Len(feed)
              /\ feed[calls[i].handle].text = calls[i].text
              /\ feed[calls[i].handle].reply_to = calls[i].reply_to
    /\ LastCallFailed => result = "raised" /\ pc = "done"

\* C3 witness: call 2 of 3 failed after call 1 had made its post
FailureAbortsWitness ==
    /\ Len(chunks) = 3
    /\ Len(calls) = 2
    /\ LastCallFailed
    /\ calls[1].handle # 0
    /\ pc = "done"

\* C5: calls are issued one per chunk in chunk order, call i after i - 1
\* delays, and a post_chunks that met no failure has issued one call per
\* chunk and returns their number
AllChunksPosted ==
    /\ \A i \in 1..Len(calls) :
        /\ i <= Len(chunks) /\ calls[i].text = chunks[i]
        /\ calls[i].at = (i - 1) * Delay
    /\ result = "returned" =>
        /\ Len(chunks) >= 1
        /\ retval = Len(chunks)
        /\ Len(calls) = Len(chunks)
        /\ \A i \in 1..Len(calls) : calls[i].handle # 0

\* C5 witness: a thread of three chunks was posted completely
AllChunksPostedWitness ==
    /\ result = "returned"
    /\ retval = 3
    /\ calls[1].at = 0
    /\ calls[3].at = 2 * Delay

----------------------------------------------------------------------------
(* Claims about process_inbox *)

\* C1: the step that follows a failed login or a failed send_post leaves the
\* message's INBOX label in place
FailedPostStaysInInbox ==
    [][(pc = "archive" /\ result = "raised") => inInbox' = inInbox]_vars

\* the posts the calls of the current thread have made
PostsMade == Cardinality({i \in 1..Len(calls) : calls[i].handle # 0})

\* C4 as claimed: after a failure num_posts is the number of chunks published
\* before it
CountIsPostsBeforeFailure ==
    (pc = "archive" /\ result = "raised") => num_posts = PostsMade

\* C4 as amended: after a failure num_posts is 0, whatever the number of
\* chunks published before it; after a success it is the number of chunks
FailureReportsZero ==
    pc = "archive" =>
        /\ result = "raised" => num_posts = 0
        /\ result = "returned" => num_posts = Len(chunks) /\ num_posts = PostsMade

\* C4 witness: call 2 of 3 failed, one post is made and num_posts is 0
FailureReportsZeroWitness ==
    /\ pc = "archive"
    /\ result = "raised"
    /\ Len(chunks) = 3
    /\ Len(calls) = 2
    /\ PostsMade = 1
    /\ num_posts = 0

\* C9: the loop passes every listed message to messages.get, in order, before
\* process_inbox returns
LoopCoversAll ==
    /\ Len(gets) <= Len(inbox_messages)
    /\ gets = SubSeq(inbox_messages, 1, Len(gets))
    /\ pc = "done" => gets = inbox_messages

\* the root posts of message m the service holds
Threads(m) ==
    Cardinality({i \in 1..Len(feed) : feed[i].of = m /\ feed[i].reply_to = NoReply})

\* C9 witness: the run is over, the first message's handling failed (it has
\* an alias, no post and is still in the inbox) and the second was posted
LoopCoversAllWitness ==
    /\ pc = "done"
    /\ gets = <<1, 2>>
    /\ mailbox[1].to \in DOMAIN Aliases
    /\ 1 \in inInbox
    /\ Threads(1) = 0
    /\ Threads(2) = 1

\* C10 as claimed: no message's thread is published twice
NoThreadTwice == \A m \in DOMAIN mailbox : Threads(m) <= 1

\* C10 as amended: every message the loop has yet to handle, or is handling,
\* carries the INBOX label: a message whose label was removed is not listed,
\* fetched or posted again
ArchivedIsSkipped ==
    /\ \A i \in idx..Len(inbox_messages) : inbox_messages[i] \in inInbox
    /\ \A i \in 1..Len(gets) : i >= idx => gets[i] \in inInbox

\* C10 witness: a later run handles a message while the other message, posted
\* and archived by an earlier run, is not in its list
ArchivedIsSkippedWitness ==
    /\ run = 2
    /\ pc = "login"
    /\ DOMAIN mailbox = {1, 2}
    /\ inbox_messages = <<2>>
    /\ 1 \notin inInbox
    /\ Threads(1) = 1

====
